---- MODULE Spec2Model ----
(***************************************************************************)
(* A model of nix-janitor: the Generation parser, the GenerationSet        *)
(* retention queries and the per-profile pipeline that main() joins with   *)
(* try_join_all.                                                            *)
(*                                                                         *)
(* Four specifications share the module, each over its own variables (the  *)
(* other variables stay at their idle value):                              *)
(*   SpecSet   - the three retention queries applied to every well-formed  *)
(*               GenerationSet within the bounds;                          *)
(*   SpecFrom  - a GenerationSet built from an arbitrary Vec<Generation>,  *)
(*               ids repeated or not, and then queried;                    *)
(*   SpecParse - Generation::parse and Generation::parse_many applied to   *)
(*               bounded enumeration texts;                                *)
(*   Spec      - the pipeline of main(): one future per profile, polled in *)
(*               order by try_join_all, with the nix-env child processes   *)
(*               as the environment, and the nix-store --gc that main      *)
(*               may run once the join has returned.                       *)
(***************************************************************************)
EXTENDS Integers, Sequences, FiniteSets, TLC

VARIABLES
    gs_from,      \* the Vec<Generation> the GenerationSet is built from
    gs_self,      \* the GenerationSet a query is called on (&self)
    gs_n,         \* the `n` / `keep` argument
    gs_date,      \* the `date` argument (cutoff)
    gs_call,      \* which query has been called: "none" before the call
    gs_result,    \* the GenerationSet the query returned
    p_input,      \* the &str handed to Generation::parse / parse_many (characters)
    p_call,       \* which parser has been called: "none" before the call
    p_result,     \* what the call produced: Ok, Err or a panic
    args,         \* the parsed command line (NJParser)
    now,          \* the clock reading Utc::now() of main
    job,          \* job[p]: the Job threaded through profile p's pipeline
    stage,        \* stage[p]: where profile p's future stands
    outcome,      \* outcome[p]: what profile p's future returned, once it has
    list_child,   \* list_child[p]: the nix-env --list-generations process
    delete_child, \* delete_child[p]: the nix-env --delete-generations process
    cursor,       \* try_join_all's poll: the element polled next, 0 while parked
    joined,       \* what try_join_all(...).await produced, Pending before
    history,      \* history[p]: the stages profile p has gone through, in order
    gc,           \* the nix-store --gc process of perform_gc
    main_result   \* what main returned, Pending before

setVars == <<gs_from, gs_self, gs_n, gs_date, gs_call, gs_result>>
parseVars == <<p_input, p_call, p_result>>
pipeVars == <<args, now, job, stage, outcome, list_child, delete_child, cursor, joined, history,
              gc, main_result>>

vars == <<setVars, parseVars, pipeVars>>

(***************************************************************************)
(* Bounds of the model.                                                    *)
(***************************************************************************)
MaxId == 3
MaxTime == 3
MaxLines == 2
MaxFields == 5
MaxVec == 2

Ids == 1..MaxId
Times == 1..MaxTime
\* arguments range one past the data so that n > |S| and a cutoff later than
\* every entry (and one earlier than every entry) happen
Counts == 0..(MaxId + 1)
Cutoffs == 0..(MaxTime + 1)

(***************************************************************************)
(* Generation (generation.rs): id, date, current.  Ord compares the id     *)
(* alone; the derived PartialEq compares all three fields.                 *)
(***************************************************************************)
Generation(id, date, current) == [id |-> id, date |-> date, current |-> current]

\* impl Ord for Generation: self.id.cmp(&other.id)
cmp(a, b) == IF a.id < b.id THEN "Less" ELSE IF a.id > b.id THEN "Greater" ELSE "Equal"

Last(s) == s[Len(s)]

RECURSIVE InsertSorted(_, _)
\* stable insertion: g goes after every element that is not Greater than it
InsertSorted(s, g) ==
    IF s = <<>> THEN <<g>>
    ELSE IF cmp(Last(s), g) = "Greater"
         THEN Append(InsertSorted(SubSeq(s, 1, Len(s) - 1), g), Last(s))
         ELSE Append(s, g)

RECURSIVE sort_by_id(_)
\* Vec::sort_by(|a, b| a.id.cmp(&b.id)), a stable sort
sort_by_id(v) ==
    IF v = <<>> THEN <<>>
    ELSE InsertSorted(sort_by_id(SubSeq(v, 1, Len(v) - 1)), Last(v))

RECURSIVE DedupSorted(_)
\* BTreeSet's bulk build from a sorted Vec: of two neighbours that are equal
\* (PartialEq, all fields) only the later one is kept
DedupSorted(v) ==
    IF Len(v) <= 1 THEN v
    ELSE IF v[1] = v[2] THEN DedupSorted(Tail(v))
         ELSE <<v[1]>> \o DedupSorted(Tail(v))

\* From<S: AsRef<[Generation]>> / FromIterator: collect into the BTreeSet.
\* A GenerationSet is modelled by the sequence its iterator yields.
GenerationSetFrom(v) == DedupSorted(sort_by_id(v))

\* GenerationSet::iter
iter(self) == self

\* GenerationSet::len
len(self) == Len(self)

IdsOf(self) == {self[i].id : i \in 1..Len(self)}

\* BTreeSet::contains, a search by Ord
contains(set, g) == \E i \in 1..Len(set) : cmp(set[i], g) = "Equal"

get_last_n_generations_off_by_one(self, n) ==
    LET generations == sort_by_id(self)
    IN  IF n > Len(generations) THEN GenerationSetFrom(generations)
        ELSE GenerationSetFrom(SubSeq(generations, Len(generations) - n + 2, Len(generations)))

get_last_n_generations_keep_first(self, n) ==
    LET generations == sort_by_id(self)
    IN  IF n >= Len(generations) THEN GenerationSetFrom(generations)
        ELSE GenerationSetFrom(SubSeq(generations, 1, n))

\* GenerationSet::get_last_n_generations
get_last_n_generations(self, n) ==
    LET generations == sort_by_id(self)
    IN  IF n >= Len(generations) THEN GenerationSetFrom(generations)
        ELSE GenerationSetFrom(SubSeq(generations, Len(generations) - n + 1, Len(generations)))

get_active_on_or_after_flipped(self, date) ==
    LET IsNewer(g) == g.date <= date
        IsOlder(g) == ~(g.date <= date)
        newer == SelectSeq(iter(self), IsNewer)
        older == SelectSeq(iter(self), IsOlder)
    IN  IF older = <<>> THEN GenerationSetFrom(newer)
        ELSE GenerationSetFrom(<<Last(older)>> \o newer)

get_active_on_or_after_latest_older(self, date) ==
    LET IsNewer(g) == g.date >= date
        IsOlder(g) == ~(g.date >= date)
        newer == SelectSeq(iter(self), IsNewer)
        older == SelectSeq(iter(self), IsOlder)
        latest == CHOOSE i \in 1..Len(older) :
                      /\ \A j \in 1..Len(older) : older[j].date <= older[i].date
                      /\ \A j \in 1..(i - 1) : older[j].date < older[i].date
    IN  IF older = <<>> THEN GenerationSetFrom(newer)
        ELSE GenerationSetFrom(<<older[latest]>> \o newer)

get_active_on_or_after_first_older(self, date) ==
    LET IsNewer(g) == g.date >= date
        IsOlder(g) == ~(g.date >= date)
        newer == SelectSeq(iter(self), IsNewer)
        older == SelectSeq(iter(self), IsOlder)
    IN  IF older = <<>> THEN GenerationSetFrom(newer)
        ELSE GenerationSetFrom(<<Head(older)>> \o newer)

get_active_on_or_after_newer_only(self, date) ==
    LET IsNewer(g) == g.date >= date
    IN  GenerationSetFrom(SelectSeq(iter(self), IsNewer))

\* GenerationSet::get_active_on_or_after
get_active_on_or_after(self, date) ==
    LET IsNewer(g) == g.date >= date
        IsOlder(g) == ~(g.date >= date)
        newer == SelectSeq(iter(self), IsNewer)
        older == SelectSeq(iter(self), IsOlder)
    IN  IF older = <<>> THEN GenerationSetFrom(newer)
        ELSE GenerationSetFrom(<<Last(older)>> \o newer)

RECURSIVE merge(_, _)
\* BTreeSet::union's iterator: the two ascending iterators merged by Ord; of
\* two heads that compare Equal the left one is yielded and both are consumed
merge(a, b) ==
    IF a = <<>> THEN b
    ELSE IF b = <<>> THEN a
    ELSE IF cmp(Head(a), Head(b)) = "Less" THEN <<Head(a)>> \o merge(Tail(a), b)
    ELSE IF cmp(Head(a), Head(b)) = "Greater" THEN <<Head(b)>> \o merge(a, Tail(b))
    ELSE <<Head(a)>> \o merge(Tail(a), Tail(b))

\* BTreeSet::union followed by cloned().collect()
union(a, b) == GenerationSetFrom(merge(a, b))

generations_to_delete_sparing_current(self, keep, date) ==
    LET by_count == get_last_n_generations(self, keep)
        by_date == get_active_on_or_after(self, date)
        to_keep == union(by_count, by_date)
        Drop(g) == ~contains(to_keep, g) /\ ~g.current
    IN  GenerationSetFrom(SelectSeq(iter(self), Drop))

generations_to_delete_by_count_only(self, keep, date) ==
    LET to_keep == get_last_n_generations(self, keep)
        Drop(g) == ~contains(to_keep, g)
    IN  GenerationSetFrom(SelectSeq(iter(self), Drop))

generations_to_delete_by_date_only(self, keep, date) ==
    LET to_keep == get_active_on_or_after(self, date)
        Drop(g) == ~contains(to_keep, g)
    IN  GenerationSetFrom(SelectSeq(iter(self), Drop))

\* GenerationSet::generations_to_delete
generations_to_delete(self, keep, date) ==
    LET by_count == get_last_n_generations(self, keep)
        by_date == get_active_on_or_after(self, date)
        to_keep == union(by_count, by_date)
        Drop(g) == ~contains(to_keep, g)
    IN  GenerationSetFrom(SelectSeq(iter(self), Drop))

RECURSIVE Ascending(_)
Ascending(S) ==
    IF S = {} THEN <<>>
    ELSE LET m == CHOOSE x \in S : \A y \in S : y <= x
         IN  Append(Ascending(S \ {m}), m)

\* the well-formed sets: one entry per id, ascending; at most one is current
WellFormedSet(ids, dates, cur) ==
    LET order == Ascending(ids)
    IN  [i \in 1..Len(order) |-> Generation(order[i], dates[order[i]], order[i] = cur)]

(***************************************************************************)
(* Generation::parse and Generation::parse_many (generation.rs).  A &str   *)
(* is a sequence of one-character strings.                                 *)
(***************************************************************************)
NoResult == <<"none">>

Whitespace == {" "}
DigitChar == <<"0", "1", "2", "3", "4", "5", "6", "7", "8", "9">>
IsDigit(c) == \E i \in 1..10 : DigitChar[i] = c
DigitValue(c) == (CHOOSE i \in 1..10 : DigitChar[i] = c) - 1

Ok(v) == [kind |-> "Ok", value |-> v]
Err(e) == [kind |-> "Err", error |-> e]
\* a panic unwinds out of the caller: there is no value to return
Panic(msg) == [kind |-> "Panic", message |-> msg]

RECURSIVE lines(_)
\* str::lines: split at "\n"; a final empty line is not yielded
lines(s) ==
    IF s = <<>> THEN <<>>
    ELSE IF \E i \in 1..Len(s) : s[i] = "\n"
         THEN LET i == CHOOSE i \in 1..Len(s) :
                          s[i] = "\n" /\ \A j \in 1..(i - 1) : s[j] # "\n"
              IN  <<SubSeq(s, 1, i - 1)>> \o lines(SubSeq(s, i + 1, Len(s)))
         ELSE <<s>>

RECURSIVE trim_start(_)
trim_start(s) ==
    IF s # <<>> /\ Head(s) \in Whitespace THEN trim_start(Tail(s)) ELSE s

RECURSIVE split_whitespace(_)
\* str::split_whitespace: the maximal runs of non-whitespace characters
split_whitespace(s) ==
    LET t == trim_start(s)
    IN  IF t = <<>> THEN <<>>
        ELSE LET n == IF \E i \in 1..Len(t) : t[i] \in Whitespace
                      THEN (CHOOSE i \in 1..Len(t) :
                               t[i] \in Whitespace /\ \A j \in 1..(i - 1) : t[j] \notin Whitespace) - 1
                      ELSE Len(t)
             IN  <<SubSeq(t, 1, n)>> \o split_whitespace(SubSeq(t, n + 1, Len(t)))

RECURSIVE DigitsValue(_)
DigitsValue(ds) ==
    IF ds = <<>> THEN 0 ELSE 10 * DigitsValue(SubSeq(ds, 1, Len(ds) - 1)) + DigitValue(Last(ds))

RECURSIVE StripZeros(_)
StripZeros(ds) == IF Len(ds) > 1 /\ Head(ds) = "0" THEN StripZeros(Tail(ds)) ELSE ds

RECURSIVE DigitsGreater(_, _)
\* a > b for digit strings of one length
DigitsGreater(a, b) ==
    IF a = <<>> THEN FALSE
    ELSE IF DigitValue(Head(a)) # DigitValue(Head(b))
         THEN DigitValue(Head(a)) > DigitValue(Head(b))
         ELSE DigitsGreater(Tail(a), Tail(b))

\* u32::MAX = 4294967295, as digits (the comparison is made on digits, the
\* value itself is computed only for tokens that fit)
U32MaxDigits == <<"4", "2", "9", "4", "9", "6", "7", "2", "9", "5">>

\* str::parse::<u32>: an optional "+", then decimal digits, no overflow
parse_u32(tok) ==
    LET body == IF tok # <<>> /\ Head(tok) = "+" THEN Tail(tok) ELSE tok
        sig == StripZeros(body)
    IN  IF tok = <<>> THEN Err("ParseIntError::Empty")
        ELSE IF body = <<>> \/ \E i \in 1..Len(body) : ~IsDigit(body[i])
             THEN Err("ParseIntError::InvalidDigit")
        ELSE IF Len(sig) > Len(U32MaxDigits)
                  \/ (Len(sig) = Len(U32MaxDigits) /\ DigitsGreater(sig, U32MaxDigits))
             THEN Err("ParseIntError::PosOverflow")
        ELSE Ok(DigitsValue(sig))

\* the items of the format "%Y-%m-%d %H:%M:%S"
Num(f, width, signed) == [k |-> "num", f |-> f, width |-> width, signed |-> signed]
Lit(c) == [k |-> "lit", c |-> c]
Space == [k |-> "space"]
DateTimeFormat ==
    << Num("year", 4, TRUE), Lit("-"), Num("month", 2, FALSE), Lit("-"), Num("day", 2, FALSE),
       Space,
       Num("hour", 2, FALSE), Lit(":"), Num("minute", 2, FALSE), Lit(":"), Num("second", 2, FALSE) >>

RECURSIVE DigitRun(_, _)
\* how many leading digits s has, at most max
DigitRun(s, max) ==
    IF s = <<>> \/ max = 0 \/ ~IsDigit(Head(s)) THEN 0 ELSE 1 + DigitRun(Tail(s), max - 1)

NoFields == [f \in {} |-> 0]

RECURSIVE parse_items(_, _, _)
\* chrono::format::parse: consume s item by item; anything left over fails
parse_items(s, items, acc) ==
    IF items = <<>> THEN (IF s = <<>> THEN Ok(acc) ELSE Err("chrono::ParseError(TooLong)"))
    ELSE LET it == Head(items)
         IN  CASE it.k = "lit" ->
                    IF s # <<>> /\ Head(s) = it.c THEN parse_items(Tail(s), Tail(items), acc)
                    ELSE IF s = <<>> THEN Err("chrono::ParseError(TooShort)")
                    ELSE Err("chrono::ParseError(Invalid)")
               [] it.k = "space" -> parse_items(trim_start(s), Tail(items), acc)
               [] it.k = "num" ->
                    LET t == trim_start(s)
                        sign == IF it.signed /\ t # <<>> /\ Head(t) \in {"+", "-"} THEN Head(t) ELSE ""
                        u == IF sign = "" THEN t ELSE Tail(t)
                        n == DigitRun(u, IF sign = "" THEN it.width ELSE Len(u))
                        v == DigitsValue(SubSeq(u, 1, n))
                    IN  IF n = 0
                        THEN (IF u = <<>> THEN Err("chrono::ParseError(TooShort)")
                              ELSE Err("chrono::ParseError(Invalid)"))
                        ELSE parse_items(SubSeq(u, n + 1, Len(u)), Tail(items),
                                         (it.f :> (IF sign = "-" THEN 0 - v ELSE v)) @@ acc)

IsLeap(y) == (y % 4 = 0 /\ y % 100 # 0) \/ y % 400 = 0
DaysIn(y, m) ==
    IF m = 2 THEN (IF IsLeap(y) THEN 29 ELSE 28)
    ELSE IF m \in {4, 6, 9, 11} THEN 30 ELSE 31

\* NaiveDateTime, as a number that orders as NaiveDateTime does (the code only
\* compares dates), counted from the year 2023 of the repository's test data;
\* good for dates within a few years of it
Timestamp(f) ==
    ((((f.year - 2023) * 372 + (f.month - 1) * 31 + (f.day - 1)) * 24 + f.hour) * 60
        + f.minute) * 61 + f.second

\* NaiveDateTime::parse_from_str(s, "%Y-%m-%d %H:%M:%S")
parse_from_str(s) ==
    LET r == parse_items(s, DateTimeFormat, NoFields)
    IN  IF r.kind # "Ok" THEN r
        ELSE LET f == r.value
             IN  IF /\ f.month \in 1..12
                    /\ f.day \in 1..DaysIn(f.year, f.month)
                    /\ f.hour \in 0..23
                    /\ f.minute \in 0..59
                    /\ f.second \in 0..60
                 THEN Ok(Timestamp(f))
                 ELSE Err("chrono::ParseError(OutOfRange)")

CurrentMarker == <<"(", "c", "u", "r", "r", "e", "n", "t", ")">>

\* Generation::parse
parse(input) ==
    LET parts == split_whitespace(input)
        next(i) == IF i <= Len(parts) THEN Ok(parts[i]) ELSE [kind |-> "None"]
        id == IF next(1).kind = "None" THEN Panic("Option::unwrap on None")
              ELSE LET r == parse_u32(next(1).value)
                   IN  IF r.kind = "Err"
                       THEN Panic("Result::unwrap on Err")
                       ELSE r
    IN  IF id.kind = "Panic" THEN id
        ELSE IF next(2).kind = "None" \/ next(3).kind = "None"
             THEN Panic("Option::unwrap on None")
        ELSE LET date == parse_from_str(next(2).value \o <<" ">> \o next(3).value)
                 current == (next(4) = Ok(CurrentMarker))
             IN  IF date.kind = "Err" THEN date
                 ELSE Ok(Generation(id.value, date.value, current))

RECURSIVE collect_results(_)
\* lines().map(Self::parse).collect::<Result<Vec<Self>>>(): parse line after
\* line; stop at the first Err; a panic unwinds out of the whole call
collect_results(ls) ==
    IF ls = <<>> THEN Ok(<<>>)
    ELSE LET r == parse(Head(ls))
         IN  IF r.kind # "Ok" THEN r
             ELSE LET rest == collect_results(Tail(ls))
                  IN  IF rest.kind # "Ok" THEN rest
                      ELSE Ok(<<r.value>> \o rest.value)

\* Generation::parse_many
parse_many(input) == collect_results(lines(input))

(***************************************************************************)
(* The enumeration texts the parsers are applied to, written the way       *)
(* nix-env --list-generations writes them: "<id> <date> <time> [marker]".  *)
(***************************************************************************)
Digits2(n) == <<DigitChar[((n \div 10) % 10) + 1], DigitChar[(n % 10) + 1]>>
Digits4(n) == Digits2(n \div 100) \o Digits2(n % 100)

RECURSIVE Decimal(_)
Decimal(n) == IF n < 10 THEN <<DigitChar[n + 1]>> ELSE Decimal(n \div 10) \o <<DigitChar[(n % 10) + 1]>>

RenderDate(y, m, d) == Digits4(y) \o <<"-">> \o Digits2(m) \o <<"-">> \o Digits2(d)
RenderTime(h, mi, sec) == Digits2(h) \o <<":">> \o Digits2(mi) \o <<":">> \o Digits2(sec)

OtherMarker == <<"(", "o", "l", "d", ")">>

\* what the i-th field of a line is drawn from: good and bad ids, dates, times
\* and markers, and a stray token for every further field
FieldPool(i) ==
    CASE i = 1 -> {Decimal(1), Decimal(2), <<"a", "b", "c">>}
      [] i = 2 -> {RenderDate(2023, 7, 1), RenderDate(2023, 1, 32)}
      [] i = 3 -> {RenderTime(0, 0, 0), RenderTime(24, 0, 0)}
      [] i = 4 -> {CurrentMarker, OtherMarker}
      [] OTHER -> {<<"x">>}

RECURSIVE FieldSeqs(_)
\* the sequences of n fields, field i from FieldPool(i)
FieldSeqs(n) ==
    IF n = 0 THEN {<<>>}
    ELSE {Append(fs, t) : fs \in FieldSeqs(n - 1), t \in FieldPool(n)}

RECURSIVE Join(_, _)
Join(parts, sep) ==
    IF parts = <<>> THEN <<>>
    ELSE IF Len(parts) = 1 THEN parts[1]
    ELSE parts[1] \o sep \o Join(Tail(parts), sep)

\* a line: tight ("1 2023-07-01 00:00:00") or padded as nix-env pads it
\* ("  1  2023-07-01  00:00:00  ")
Line(fields, padded) ==
    IF padded THEN <<" ", " ">> \o Join(fields, <<" ", " ">>) \o <<" ", " ">>
    ELSE Join(fields, <<" ">>)

SingleLines == {Line(fs, padded) : fs \in UNION {FieldSeqs(n) : n \in 0..MaxFields},
                                   padded \in BOOLEAN}

GoodLine(id, day, current) ==
    Line(<<Decimal(id), RenderDate(2023, 7, day), RenderTime(0, 0, 0)>>
            \o (IF current THEN <<CurrentMarker>> ELSE <<>>), TRUE)

\* the lines multi-line texts are made of: two good ones, a blank and a
\* whitespace-only one, and one of each kind of malformed line
TextLines ==
    { GoodLine(1, 1, FALSE),
      GoodLine(2, 2, TRUE),
      <<>>,
      <<" ">>,
      Line(<<<<"a", "b", "c">>, RenderDate(2023, 7, 1), RenderTime(0, 0, 0)>>, FALSE),
      Line(<<Decimal(1), RenderDate(2023, 1, 32), RenderTime(0, 0, 0)>>, FALSE),
      Line(<<Decimal(1)>>, FALSE),
      Line(<<Decimal(1), RenderDate(2023, 7, 1), RenderTime(0, 0, 0), OtherMarker>>, FALSE) }

RECURSIVE LineSeqs(_)
LineSeqs(n) ==
    IF n = 0 THEN {<<>>}
    ELSE LineSeqs(n - 1) \cup {Append(ls, l) : ls \in LineSeqs(n - 1), l \in TextLines}

\* the lines joined by "\n", with or without a final "\n"
Text(ls, final_newline) ==
    Join(ls, <<"\n">>) \o (IF final_newline /\ ls # <<>> THEN <<"\n">> ELSE <<>>)

Texts == {Text(ls, nl) : ls \in LineSeqs(MaxLines), nl \in BOOLEAN}

(***************************************************************************)
(* Job (job.rs), option::optional (option.rs) and the pipeline stages of   *)
(* bin/janitor.rs.                                                         *)
(***************************************************************************)
\* Profile::all for a user who is not root
ProfilePaths ==
    << "/nix/var/nix/profiles/per-user/$USER/profile",
       "/home/$USER/.local/state/nix/profiles/home-manager" >>
NumProfiles == Len(ProfilePaths)
Profiles == 1..NumProfiles

\* the payloads: () and a GenerationSet
Unit == [type |-> "()"]
SetData(set) == [type |-> "GenerationSet", generations |-> set]
\* the payload of a job whose future has returned Err or has been dropped:
\* the Job is gone
Dropped == [type |-> "dropped"]

Pending == [kind |-> "Pending"]

\* Job::new
JobNew(path, keep_since, keep_at_least, data) ==
    [path |-> path, keep_since |-> keep_since, keep_at_least |-> keep_at_least, data |-> data]

set_data_with_default_keep_since(self, data) ==
    [path |-> self.path, keep_since |-> 0,
     keep_at_least |-> self.keep_at_least, data |-> data]

\* Job::set_data
set_data(self, data) ==
    [path |-> self.path, keep_since |-> self.keep_since,
     keep_at_least |-> self.keep_at_least, data |-> data]

Some(v) == [kind |-> "Some", value |-> v]
None == [kind |-> "None"]

optional_ignoring_condition(condition, value) == Some(value)

\* option::optional
optional(condition, value) == IF condition THEN Some(value) ELSE None

\* Option::unwrap_or
unwrap_or(opt, default) == IF opt.kind = "Some" THEN opt.value ELSE default

\* NJParser's defaults
DefaultKeepDays == 7
DefaultKeepAtLeast == 5

\* Duration::days, in the unit of Timestamp
DurationDays(n) == n * (24 * 60 * 61)

\* midnight of a day of July 2023, the month the model's generations are from
Instant(day) ==
    Timestamp([year |-> 2023, month |-> 7, day |-> day, hour |-> 0, minute |-> 0, second |-> 0])

\* the command lines: --keep-at-least 0, the defaults, and --by-age-only,
\* each with and without the flag that main reads as args.gc
ArgChoices ==
    {[keep_days |-> DefaultKeepDays, keep_at_least |-> k, by_age_only |-> FALSE, gc |-> g] :
        k \in {0, DefaultKeepAtLeast}, g \in BOOLEAN}
    \cup {[keep_days |-> DefaultKeepDays, keep_at_least |-> DefaultKeepAtLeast,
           by_age_only |-> TRUE, gc |-> g] : g \in BOOLEAN}

\* the clock readings: they put keep_since on day 2 .. MaxId + 1 of the month
NowChoices == {Instant(DefaultKeepDays + c) : c \in 2..(MaxId + 1)}

\* main: keep_since and keep_at_least, and the Job of a profile
keep_since_of(a, t) == t - DurationDays(a.keep_days)
keep_at_least_of(a) == optional(~a.by_age_only, a.keep_at_least)
JobOf(path, a, t) == JobNew(path, keep_since_of(a, t), unwrap_or(keep_at_least_of(a), 1), Unit)

\* what a nix-env --list-generations run can print: the generations 1..k, the
\* k-th made on day k and the last one current ...
Chain(k) == WellFormedSet(1..k, [i \in 1..k |-> i], k)
RenderSet(set) ==
    Text([i \in 1..Len(set) |-> GoodLine(set[i].id, set[i].date, set[i].current)], TRUE)
\* ... or a line with a day 32, or a line whose id is no number
BadDateText == Text(<<Line(<<Decimal(1), RenderDate(2023, 1, 32), RenderTime(0, 0, 0)>>, TRUE)>>, TRUE)
BadIdText == Text(<<Line(<<<<"a", "b", "c">>, RenderDate(2023, 7, 1), RenderTime(0, 0, 0)>>, TRUE)>>, TRUE)
EnumTexts == {RenderSet(Chain(k)) : k \in 0..MaxId} \cup {BadDateText, BadIdText}

\* what nix-env writes to stderr when it fails
Diagnostic == "error: opening lock file: Permission denied"

\* how a child process can end: exit status, stdout and stderr
ListExits == {[success |-> TRUE, stdout |-> t, stderr |-> ""] : t \in EnumTexts}
                \cup {[success |-> FALSE, stdout |-> <<>>, stderr |-> Diagnostic]}
DeleteExits == {[success |-> TRUE, stderr |-> ""], [success |-> FALSE, stderr |-> Diagnostic]}

\* eyre!("nix-env failed: {stderr}"): the report holds the message with the
\* child's stderr put into it, and nothing else
nix_env_failed(stderr) == Err([message |-> "nix-env failed: {}", stderr |-> stderr])

NoChild == [state |-> "none"]

get_generations_ignoring_status(j, child) ==
    LET parsed == parse_many(child.stdout)
    IN  IF parsed.kind # "Ok" THEN parsed
        ELSE Ok(set_data(j, SetData(GenerationSetFrom(parsed.value))))

\* get_generations, from the point where the child has exited
get_generations(j, child) ==
    IF ~child.success THEN nix_env_failed(child.stderr)
    ELSE LET parsed == parse_many(child.stdout)
         IN  IF parsed.kind # "Ok" THEN parsed
             ELSE Ok(set_data(j, SetData(GenerationSetFrom(parsed.value))))

get_to_delete_keeping_listed(j) == j

get_to_delete_by_count_only(j) ==
    LET Old(g) == ~contains(get_last_n_generations(j.data.generations, j.keep_at_least), g)
    IN  set_data(j, SetData(SelectSeq(j.data.generations, Old)))

\* get_to_delete
get_to_delete(j) ==
    set_data(j, SetData(generations_to_delete(j.data.generations, j.keep_at_least, j.keep_since)))

\* run_delete: the ids handed to nix-env --delete-generations
delete_ids(j) == [i \in 1..Len(j.data.generations) |-> Decimal(j.data.generations[i].id)]

any_done(st) == \E q \in Profiles : st[q] = "done"

\* try_join_all: every element has produced Ok
all_done(st) == \A q \in Profiles : st[q] = "done"

(***************************************************************************)
(* The idle values: what the variables of the other specifications hold    *)
(* while one specification runs.                                           *)
(***************************************************************************)
IdleSet ==
    /\ gs_from = <<>>
    /\ gs_self = <<>>
    /\ gs_n = 0
    /\ gs_date = 0
    /\ gs_call = "idle"
    /\ gs_result = NoResult

IdleParse ==
    /\ p_input = <<>>
    /\ p_call = "idle"
    /\ p_result = NoResult

IdlePipe ==
    /\ args = [keep_days |-> DefaultKeepDays, keep_at_least |-> DefaultKeepAtLeast,
               by_age_only |-> FALSE, gc |-> FALSE]
    /\ now = 0
    /\ job = <<>>
    /\ stage = <<>>
    /\ outcome = <<>>
    /\ list_child = <<>>
    /\ delete_child = <<>>
    /\ cursor = 0
    /\ joined = [kind |-> "Idle"]
    /\ history = <<>>
    /\ gc = [state |-> "idle"]
    /\ main_result = [kind |-> "Idle"]

(***************************************************************************)
(* SpecParse: a parser is called once on a line or a text.                 *)
(***************************************************************************)
InitParse ==
    /\ p_input \in SingleLines \cup Texts
    /\ p_call = "none"
    /\ p_result = NoResult
    /\ IdleSet
    /\ IdlePipe

(***************************************************************************)
(* SpecSet: a query is called once on a GenerationSet drawn from the       *)
(* bounded universe.                                                       *)
(***************************************************************************)
InitSet ==
    /\ \E ids \in SUBSET Ids : \E dates \in [ids -> Times] : \E cur \in ids \cup {0} :
          gs_from = WellFormedSet(ids, dates, cur)
    /\ gs_self = GenerationSetFrom(gs_from)
    /\ gs_n \in Counts
    /\ gs_date \in Cutoffs
    /\ gs_call = "none"
    /\ gs_result = NoResult
    /\ IdleParse
    /\ IdlePipe

CallLastN ==
    /\ gs_call = "none"
    /\ gs_call' = "get_last_n_generations"
    /\ gs_result' = get_last_n_generations(gs_self, gs_n)
    /\ UNCHANGED <<gs_from, gs_self, gs_n, gs_date>>
    /\ UNCHANGED <<parseVars, pipeVars>>

CallActiveOnOrAfter ==
    /\ gs_call = "none"
    /\ gs_call' = "get_active_on_or_after"
    /\ gs_result' = get_active_on_or_after(gs_self, gs_date)
    /\ UNCHANGED <<gs_from, gs_self, gs_n, gs_date>>
    /\ UNCHANGED <<parseVars, pipeVars>>

CallToDelete ==
    /\ gs_call = "none"
    /\ gs_call' = "generations_to_delete"
    /\ gs_result' = generations_to_delete(gs_self, gs_n, gs_date)
    /\ UNCHANGED <<gs_from, gs_self, gs_n, gs_date>>
    /\ UNCHANGED <<parseVars, pipeVars>>

NextSet == CallLastN \/ CallActiveOnOrAfter \/ CallToDelete

SpecSet == InitSet /\ [][NextSet]_vars

(***************************************************************************)
(* SpecFrom: a Vec<Generation> of any content is turned into a             *)
(* GenerationSet (From<S: AsRef<[Generation]>>), and a query is called     *)
(* once on that set.                                                       *)
(***************************************************************************)
\* the generations within the bounds, and the Vecs of at most MaxVec of them
Generations == {Generation(id, date, current) : id \in Ids, date \in Times, current \in BOOLEAN}

Vecs == UNION {[1..k -> Generations] : k \in 0..MaxVec}

InitFrom ==
    /\ gs_from \in Vecs
    /\ gs_self = <<>>
    /\ gs_n \in Counts
    /\ gs_date \in Cutoffs
    /\ gs_call = "new"
    /\ gs_result = NoResult
    /\ IdleParse
    /\ IdlePipe

\* From<S> for GenerationSet
From ==
    /\ gs_call = "new"
    /\ gs_self' = GenerationSetFrom(gs_from)
    /\ gs_call' = "none"
    /\ UNCHANGED <<gs_from, gs_n, gs_date, gs_result>>
    /\ UNCHANGED <<parseVars, pipeVars>>

NextFrom == From \/ CallLastN \/ CallActiveOnOrAfter \/ CallToDelete

SpecFrom == InitFrom /\ [][NextFrom]_vars

CallParse ==
    /\ p_call = "none"
    /\ \A i \in 1..Len(p_input) : p_input[i] # "\n"
    /\ p_call' = "parse"
    /\ p_result' = parse(p_input)
    /\ UNCHANGED p_input
    /\ UNCHANGED <<setVars, pipeVars>>

CallParseMany ==
    /\ p_call = "none"
    /\ p_call' = "parse_many"
    /\ p_result' = parse_many(p_input)
    /\ UNCHANGED p_input
    /\ UNCHANGED <<setVars, pipeVars>>

NextParse == CallParse \/ CallParseMany

SpecParse == InitParse /\ [][NextParse]_vars

(***************************************************************************)
(* Spec: main() of bin/janitor.rs.  Init is the state after the futures    *)
(* run_delete(get_to_delete(get_generations(Job::new(..)))) have been      *)
(* collected, one per profile, and handed to try_join_all.  try_join_all   *)
(* polls its elements in order: cursor is the element it is at.  An        *)
(* element runs until it awaits a child process that has not exited, or    *)
(* returns.  The children exit on their own.                               *)
(***************************************************************************)
Init ==
    /\ args \in ArgChoices
    /\ now \in NowChoices
    /\ job = [p \in Profiles |-> JobOf(ProfilePaths[p], args, now)]
    /\ stage = [p \in Profiles |-> "created"]
    /\ outcome = [p \in Profiles |-> Pending]
    /\ list_child = [p \in Profiles |-> NoChild]
    /\ delete_child = [p \in Profiles |-> NoChild]
    /\ cursor = 0
    /\ joined = Pending
    /\ history = [p \in Profiles |-> <<>>]
    /\ gc = NoChild
    /\ main_result = Pending
    /\ IdleSet
    /\ IdleParse

\* element p can get further than it got at the last poll
CanProgress(p) ==
    \/ stage[p] = "created"
    \/ stage[p] = "listing" /\ list_child[p].state = "exited"
    \/ stage[p] = "deleting" /\ delete_child[p].state = "exited"

\* the task is woken and try_join_all is polled from its first element
Wake ==
    /\ joined = Pending
    /\ cursor = 0
    /\ \E p \in Profiles : CanProgress(p)
    /\ cursor' = 1
    /\ UNCHANGED <<args, now, job, stage, outcome, list_child, delete_child, joined, history>>
    /\ UNCHANGED <<setVars, parseVars, gc, main_result>>

\* element p returned Pending or is done: on to the next element; past the
\* last one try_join_all returns Ok if every element is done, Pending if not
Advance(p, st) ==
    IF p < NumProfiles
    THEN cursor' = p + 1 /\ joined' = joined
    ELSE cursor' = 0 /\ joined' = (IF all_done(st) THEN [kind |-> "Ok"] ELSE joined)

Fail_with_retry(p, r) ==
    /\ stage' = [stage EXCEPT ![p] = "created"]
    /\ UNCHANGED <<job, outcome, joined, cursor>>

\* element p returned Err (or panicked): try_join_all stops polling, drops
\* every element that is not done, and returns the error
Fail(p, r) ==
    /\ stage' = [q \in Profiles |->
                    IF q = p THEN (IF r.kind = "Panic" THEN "panicked" ELSE "failed")
                    ELSE IF stage[q] = "done" THEN "done" ELSE "dropped"]
    /\ job' = [q \in Profiles |->
                  IF q # p /\ stage[q] = "done" THEN job[q] ELSE set_data(job[q], Dropped)]
    /\ outcome' = [outcome EXCEPT ![p] = r]
    /\ joined' = [kind |-> r.kind, from |-> p, error |-> r]
    /\ cursor' = 0

Polling(p) == joined = Pending /\ cursor = p

\* get_generations up to its await: spawn nix-env --list-generations
StartList(p) ==
    /\ Polling(p)
    /\ stage[p] = "created"
    /\ \E spawned \in BOOLEAN :
          IF spawned
          THEN /\ list_child' = [list_child EXCEPT ![p] = [state |-> "running", path |-> job[p].path]]
               /\ stage' = [stage EXCEPT ![p] = "listing"]
               /\ history' = [history EXCEPT ![p] = Append(@, "Enumerate")]
               /\ Advance(p, stage')
               /\ UNCHANGED <<outcome, job>>
          ELSE /\ Fail(p, Err("io::Error (spawn)"))
               /\ UNCHANGED <<list_child, history>>
    /\ UNCHANGED <<args, now, delete_child>>
    /\ UNCHANGED <<setVars, parseVars, gc, main_result>>

\* the list child has not exited: element p is Pending
StillListing(p) ==
    /\ Polling(p)
    /\ stage[p] = "listing"
    /\ list_child[p].state = "running"
    /\ Advance(p, stage)
    /\ UNCHANGED <<args, now, job, stage, outcome, list_child, delete_child, history>>
    /\ UNCHANGED <<setVars, parseVars, gc, main_result>>

\* get_generations after its await: exit status, parse_many, set_data
FinishList(p) ==
    /\ Polling(p)
    /\ stage[p] = "listing"
    /\ list_child[p].state = "exited"
    /\ \E r \in {get_generations(job[p], list_child[p])} :
           IF r.kind = "Ok"
           THEN /\ job' = [job EXCEPT ![p] = r.value]
                /\ stage' = [stage EXCEPT ![p] = "listed"]
                /\ history' = [history EXCEPT ![p] = Append(@, "List")]
                /\ UNCHANGED <<outcome, cursor, joined>>
           ELSE /\ Fail(p, r)
                /\ UNCHANGED history
    /\ UNCHANGED <<args, now, list_child, delete_child>>
    /\ UNCHANGED <<setVars, parseVars, gc, main_result>>

awaited_without_check(s) == s \in {"listed", "selected"}

\* get_to_delete's job.await?: the inner future, get_generations, returned Ok
awaited(s) == s = "listed"

\* get_to_delete after its await
Select(p) ==
    /\ Polling(p)
    /\ awaited(stage[p])
    /\ job' = [job EXCEPT ![p] = get_to_delete(job[p])]
    /\ stage' = [stage EXCEPT ![p] = "selected"]
    /\ history' = [history EXCEPT ![p] = Append(@, "Select")]
    /\ UNCHANGED <<args, now, outcome, list_child, delete_child, cursor, joined>>
    /\ UNCHANGED <<setVars, parseVars, gc, main_result>>

StartDelete_skipping_empty(p) ==
    /\ Polling(p)
    /\ stage[p] = "selected"
    /\ IF delete_ids(job[p]) = <<>>
       THEN /\ job' = [job EXCEPT ![p] = set_data(job[p], Unit)]
            /\ stage' = [stage EXCEPT ![p] = "done"]
            /\ outcome' = [outcome EXCEPT ![p] = Ok(job'[p])]
            /\ Advance(p, stage')
            /\ UNCHANGED <<delete_child, history>>
       ELSE /\ delete_child' = [delete_child EXCEPT ![p] =
                                   [state |-> "running", path |-> job[p].path, ids |-> delete_ids(job[p])]]
            /\ stage' = [stage EXCEPT ![p] = "deleting"]
            /\ history' = [history EXCEPT ![p] = Append(@, "Delete")]
            /\ Advance(p, stage')
            /\ UNCHANGED <<outcome, job>>
    /\ UNCHANGED <<args, now, list_child>>
    /\ UNCHANGED <<setVars, parseVars, gc, main_result>>

\* run_delete from its first await to its second: spawn
\* nix-env --delete-generations with the ids of the payload
StartDelete(p) ==
    /\ Polling(p)
    /\ stage[p] = "selected"
    /\ \E spawned \in BOOLEAN :
          IF spawned
          THEN /\ delete_child' = [delete_child EXCEPT ![p] =
                                      [state |-> "running", path |-> job[p].path, ids |-> delete_ids(job[p])]]
               /\ stage' = [stage EXCEPT ![p] = "deleting"]
               /\ history' = [history EXCEPT ![p] = Append(@, "Delete")]
               /\ Advance(p, stage')
               /\ UNCHANGED <<outcome, job>>
          ELSE /\ Fail(p, Err("io::Error (spawn)"))
               /\ UNCHANGED <<delete_child, history>>
    /\ UNCHANGED <<args, now, list_child>>
    /\ UNCHANGED <<setVars, parseVars, gc, main_result>>

\* the delete child has not exited: element p is Pending
StillDeleting(p) ==
    /\ Polling(p)
    /\ stage[p] = "deleting"
    /\ delete_child[p].state = "running"
    /\ Advance(p, stage)
    /\ UNCHANGED <<args, now, job, stage, outcome, list_child, delete_child, history>>
    /\ UNCHANGED <<setVars, parseVars, gc, main_result>>

\* run_delete after its second await: exit status, set_data(())
FinishDelete(p) ==
    /\ Polling(p)
    /\ stage[p] = "deleting"
    /\ delete_child[p].state = "exited"
    /\ IF delete_child[p].success
       THEN /\ job' = [job EXCEPT ![p] = set_data(job[p], Unit)]
            /\ stage' = [stage EXCEPT ![p] = "done"]
            /\ outcome' = [outcome EXCEPT ![p] = Ok(job'[p])]
            /\ history' = [history EXCEPT ![p] = Append(@, "Deleted")]
            /\ Advance(p, stage')
       ELSE /\ Fail(p, nix_env_failed(delete_child[p].stderr))
            /\ UNCHANGED history
    /\ UNCHANGED <<args, now, list_child, delete_child>>
    /\ UNCHANGED <<setVars, parseVars, gc, main_result>>

\* element p is done already: it is not polled again
SkipDone(p) ==
    /\ Polling(p)
    /\ stage[p] = "done"
    /\ Advance(p, stage)
    /\ UNCHANGED <<args, now, job, stage, outcome, list_child, delete_child, history>>
    /\ UNCHANGED <<setVars, parseVars, gc, main_result>>

\* nix-env --list-generations exits (whether or not anyone still waits for it)
ListChildExits(p) ==
    /\ list_child[p].state = "running"
    /\ \E e \in ListExits :
          list_child' = [list_child EXCEPT ![p] =
                            [state |-> "exited", path |-> @.path,
                             success |-> e.success, stdout |-> e.stdout, stderr |-> e.stderr]]
    /\ UNCHANGED <<args, now, job, stage, outcome, delete_child, cursor, joined, history>>
    /\ UNCHANGED <<setVars, parseVars, gc, main_result>>

\* nix-env --delete-generations exits (whether or not anyone still waits for it)
DeleteChildExits(p) ==
    /\ delete_child[p].state = "running"
    /\ \E e \in DeleteExits :
          delete_child' = [delete_child EXCEPT ![p] =
                              [state |-> "exited", path |-> @.path, ids |-> @.ids,
                               success |-> e.success, stderr |-> e.stderr]]
    /\ UNCHANGED <<args, now, job, stage, outcome, list_child, cursor, joined, history>>
    /\ UNCHANGED <<setVars, parseVars, gc, main_result>>

\* the frame of the steps main takes after try_join_all has returned
JoinOver ==
    UNCHANGED <<args, now, job, stage, outcome, list_child, delete_child, cursor, joined, history,
                setVars, parseVars>>

\* try_join_all(..).await?: an Err (or a panic) of the join ends main at once
ReturnJoinError ==
    /\ main_result = Pending
    /\ joined.kind \in {"Err", "Panic"}
    /\ main_result' = joined.error
    /\ UNCHANGED gc
    /\ JoinOver

\* if args.gc is not set, main returns Ok(()) after the join
ReturnWithoutGc ==
    /\ main_result = Pending
    /\ joined.kind = "Ok"
    /\ ~args.gc
    /\ main_result' = Ok(Unit)
    /\ UNCHANGED gc
    /\ JoinOver

StartGc_without_join ==
    /\ main_result = Pending
    /\ args.gc
    /\ gc.state = "none"
    /\ gc' = [state |-> "running"]
    /\ UNCHANGED main_result
    /\ JoinOver

\* perform_gc up to its loop: spawn nix-store --verbose --gc
StartGc ==
    /\ main_result = Pending
    /\ joined.kind = "Ok"
    /\ args.gc
    /\ gc.state = "none"
    /\ \E spawned \in BOOLEAN :
          IF spawned
          THEN gc' = [state |-> "running"] /\ UNCHANGED main_result
          ELSE main_result' = Err("io::Error (spawn)") /\ UNCHANGED gc
    /\ JoinOver

\* nix-store --gc exits; its output lines were logged as they came, or
\* reading them failed
GcExits ==
    /\ gc.state = "running"
    /\ \E e \in {"success", "failure", "io::Error (read)"} :
          gc' = [state |-> "exited", how |-> e]
    /\ UNCHANGED main_result
    /\ JoinOver

\* perform_gc after its loop: a non-zero status is only logged
FinishGc ==
    /\ main_result = Pending
    /\ gc.state = "exited"
    /\ main_result' = (IF gc.how = "io::Error (read)" THEN Err(gc.how) ELSE Ok(Unit))
    /\ UNCHANGED gc
    /\ JoinOver

Next ==
    \/ Wake
    \/ \E p \in Profiles : StartList(p)
    \/ \E p \in Profiles : StillListing(p)
    \/ \E p \in Profiles : FinishList(p)
    \/ \E p \in Profiles : Select(p)
    \/ \E p \in Profiles : StartDelete(p)
    \/ \E p \in Profiles : StillDeleting(p)
    \/ \E p \in Profiles : FinishDelete(p)
    \/ \E p \in Profiles : SkipDone(p)
    \/ \E p \in Profiles : ListChildExits(p)
    \/ \E p \in Profiles : DeleteChildExits(p)
    \/ ReturnJoinError
    \/ ReturnWithoutGc
    \/ StartGc
    \/ GcExits
    \/ FinishGc

Spec == Init /\ [][Next]_vars

(***************************************************************************)
(* Properties of the retention queries (checked under SpecSet).            *)
(***************************************************************************)
Entries(set) == {set[i] : i \in 1..Len(set)}

Min(a, b) == IF a <= b THEN a ELSE b

OlderThan(set, date) == {g \in Entries(set) : g.date < date}
NotOlderThan(set, date) == {g \in Entries(set) : g.date >= date}

\* C1: generations_to_delete(keep, cutoff) is disjoint from
\* get_last_n_generations(keep) \cup get_active_on_or_after(cutoff), and
\* together with that union it is exactly S, as entries and as ids.
C1_ExactPartition ==
    gs_call = "generations_to_delete" =>
        LET deleted == Entries(gs_result)
            retained == Entries(get_last_n_generations(gs_self, gs_n))
                            \cup Entries(get_active_on_or_after(gs_self, gs_date))
        IN  /\ deleted \cap retained = {}
            /\ deleted \cup retained = Entries(gs_self)
            /\ IdsOf(gs_result) \cap {g.id : g \in retained} = {}
            /\ Cardinality(deleted) = Len(gs_result)

\* C1 witness: a call that deletes some entries and retains others, where the
\* count floor is not empty and the age floor protects an entry the count floor
\* does not
C1_Witness ==
    /\ gs_call = "generations_to_delete"
    /\ Len(gs_result) > 0
    /\ Len(gs_result) < Len(gs_self)
    /\ gs_n > 0
    /\ IdsOf(get_active_on_or_after(gs_self, gs_date))
           \ IdsOf(get_last_n_generations(gs_self, gs_n)) # {}

\* C2 as stated: get_active_on_or_after(cutoff) is the entries with
\* timestamp >= cutoff plus, if some entry is strictly before cutoff, one entry
\* of greatest timestamp among those strictly before cutoff -- for every
\* assignment of timestamps to ids.
C2_GreatestTimestampBelow ==
    gs_call = "get_active_on_or_after" =>
        LET older == OlderThan(gs_self, gs_date)
            newer == NotOlderThan(gs_self, gs_date)
        IN  IF older = {} THEN Entries(gs_result) = newer
            ELSE \E x \in older :
                    /\ \A y \in older : y.date <= x.date
                    /\ Entries(gs_result) = newer \cup {x}

\* C2 amended: get_active_on_or_after(cutoff) is the entries with
\* timestamp >= cutoff plus, if some entry is strictly before cutoff, the single
\* entry with the greatest id among those strictly before cutoff.
C2_GreatestIdBelow ==
    gs_call = "get_active_on_or_after" =>
        LET older == OlderThan(gs_self, gs_date)
            newer == NotOlderThan(gs_self, gs_date)
        IN  /\ Len(gs_result) = Cardinality(Entries(gs_result))
            /\ IF older = {} THEN Entries(gs_result) = newer
               ELSE LET x == CHOOSE x \in older : \A y \in older : y.id <= x.id
                    IN  Entries(gs_result) = newer \cup {x}

\* C2 witness: timestamps do not increase with id, and the entry kept from
\* below the cutoff is not the one with the greatest timestamp there
C2_Witness ==
    /\ gs_call = "get_active_on_or_after"
    /\ NotOlderThan(gs_self, gs_date) # {}
    /\ \E x \in OlderThan(gs_self, gs_date) :
          /\ x \in Entries(gs_result)
          /\ \E y \in OlderThan(gs_self, gs_date) : y.date > x.date /\ y.id < x.id

\* C3: get_last_n_generations(n) has exactly min(n, |S|) entries, all entries
\* of S, and they hold the n largest ids of S: all of S when n >= |S|, nothing
\* when n = 0.
C3_LastN ==
    gs_call = "get_last_n_generations" =>
        /\ Len(gs_result) = Min(gs_n, len(gs_self))
        /\ Cardinality(IdsOf(gs_result)) = Min(gs_n, len(gs_self))
        /\ Entries(gs_result) \subseteq Entries(gs_self)
        /\ \A g \in Entries(gs_result) :
              \A h \in Entries(gs_self) \ Entries(gs_result) : h.id < g.id
        /\ (gs_n >= len(gs_self) => gs_result = gs_self)
        /\ (gs_n = 0 => gs_result = <<>>)

\* C3 witness: a proper, non-empty tail of the set is returned
C3_Witness ==
    /\ gs_call = "get_last_n_generations"
    /\ gs_n > 0
    /\ gs_n < len(gs_self)
    /\ Len(gs_result) = gs_n

(***************************************************************************)
(* Properties of Generation::parse (checked under SpecParse).              *)
(***************************************************************************)
Fields(input) == split_whitespace(input)

NotAnInteger(tok) == \E i \in 1..Len(tok) : ~IsDigit(tok[i])

\* C9: Generation::parse on a line whose first field is not a non-negative
\* integer returns an error value (an id error); it does not abort the program.
C9_InvalidIdIsAnErrorValue ==
    (/\ p_call = "parse"
     /\ Fields(p_input) # <<>>
     /\ NotAnInteger(Fields(p_input)[1]))
        => p_result.kind = "Err"

\* C10: Generation::parse on a line whose id is fine and whose date or time
\* field is missing, or whose date and time do not parse as
\* YYYY-MM-DD HH:MM:SS, returns an error value (a timestamp error); a line with
\* fewer than three fields yields this error rather than aborting.
C10_InvalidTimestampIsAnErrorValue ==
    (/\ p_call = "parse"
     /\ Fields(p_input) # <<>>
     /\ parse_u32(Fields(p_input)[1]).kind = "Ok"
     /\ \/ Len(Fields(p_input)) < 3
        \/ parse_from_str(Fields(p_input)[2] \o <<" ">> \o Fields(p_input)[3]).kind = "Err")
        => p_result.kind = "Err"

(***************************************************************************)
(* Properties of the pipelines of main (checked under Spec).               *)
(***************************************************************************)
\* what Generation::parse_many makes of each text a listing can print,
\* worked out once; Listed(text) is parse_many(text)
ListingTable == [t \in EnumTexts |-> parse_many(t)]

Listed(text) == IF text \in EnumTexts THEN ListingTable[text] ELSE parse_many(text)

StepsOf(h) == {h[i] : i \in 1..Len(h)}

IsPrefix(h, full) == Len(h) <= Len(full) /\ \A i \in 1..Len(h) : h[i] = full[i]

\* try_join_all has returned
Returned == joined.kind \in {"Ok", "Err", "Panic"}

Failed(p) == outcome[p].kind \in {"Err", "Panic"}

\* nix-env --list-generations of profile p ended well and printed a text
\* that parse_many accepts
ListOutputGood(p) ==
    /\ list_child[p].state = "exited"
    /\ list_child[p].success
    /\ Listed(list_child[p].stdout).kind = "Ok"

\* the List step of profile p fails: nix-env could not be spawned, ended with
\* a non-zero status, or printed what parse_many does not accept
ListFailed(p) ==
    \/ stage[p] = "failed" /\ list_child[p].state = "none"
    \/ /\ list_child[p].state = "exited"
       /\ \/ ~list_child[p].success
          \/ Listed(list_child[p].stdout).kind # "Ok"

\* C4: a failure in one profile's pipeline does not keep another profile's
\* pipeline from running to completion: once main is through, every profile
\* whose listing ended well, and whose own pipeline did not fail, has had its
\* Delete invoked.
C4_FailureDoesNotCancelOthers ==
    Returned =>
        \A p \in Profiles :
            (ListOutputGood(p) /\ ~Failed(p)) => "Delete" \in StepsOf(history[p])

\* C5: the join is Ok only if every pipeline returned Ok, and is never an
\* error when all of them did; an error (or panic) that the join surfaces is
\* the outcome of the pipeline that failed, no other pipeline failed before
\* it, and a failed pipeline always makes the join fail.
C5_JoinResult ==
    /\ joined.kind = "Ok" => \A p \in Profiles : outcome[p].kind = "Ok"
    /\ (\A p \in Profiles : outcome[p].kind = "Ok") => joined.kind \in {"Ok", "Pending"}
    /\ (\E p \in Profiles : Failed(p)) => joined.kind \in {"Err", "Panic"}
    /\ joined.kind \in {"Err", "Panic"} =>
          /\ joined.error = outcome[joined.from]
          /\ joined.error.kind = joined.kind
          /\ \A q \in Profiles \ {joined.from} : ~Failed(q)

\* C5 witness: the join returned the error of one pipeline while the listing
\* of another profile had ended with a failure as well
C5_Witness ==
    /\ joined.kind = "Err"
    /\ \E q \in Profiles \ {joined.from} :
          list_child[q].state = "exited" /\ ~list_child[q].success

\* C6: when the List step of a profile fails (spawn failure, non-zero exit,
\* output that does not parse), Select is never run for that profile and its
\* Delete is never invoked.
C6_ListFailureStopsPipeline ==
    \A p \in Profiles :
        ListFailed(p) =>
            /\ "Select" \notin StepsOf(history[p])
            /\ "Delete" \notin StepsOf(history[p])
            /\ delete_child[p] = NoChild
            /\ stage[p] \notin {"listed", "selected", "deleting", "done"}

\* C6 witness: a pipeline has returned the failure of its List step, which
\* came from the exit status or from the parser
C6_Witness ==
    \E p \in Profiles :
        /\ ListFailed(p)
        /\ list_child[p].state = "exited"
        /\ list_child[p].success
        /\ stage[p] \in {"failed", "panicked"}

\* C7: the ids handed to nix-env --delete-generations for a profile are the
\* ids of generations_to_delete(keep_at_least, keep_since) on the set parsed
\* from that profile's listing, and both children are given the profile's own
\* path.
C7_DeleteIds ==
    \A p \in Profiles :
        delete_child[p].state # "none" =>
            LET set == GenerationSetFrom(Listed(list_child[p].stdout).value)
                del == generations_to_delete(set, unwrap_or(keep_at_least_of(args), 1),
                                             keep_since_of(args, now))
            IN  /\ delete_child[p].ids = [i \in 1..Len(del) |-> Decimal(del[i].id)]
                /\ delete_child[p].path = ProfilePaths[p]
                /\ list_child[p].path = ProfilePaths[p]

\* C7 witness: Delete was invoked with some, not all, of the listed ids
C7_Witness ==
    \E p \in Profiles :
        /\ delete_child[p].state # "none"
        /\ Len(delete_child[p].ids) > 0
        /\ Len(delete_child[p].ids) < Len(Listed(list_child[p].stdout).value)

\* C8: within a profile the steps happen in the order Enumerate, List,
\* Select, Delete, each at most once and none before the one it follows.
C8_StepOrder ==
    \A p \in Profiles :
        IsPrefix(history[p], <<"Enumerate", "List", "Select", "Delete", "Deleted">>)

\* C8 witness: the steps of two profiles interleave, a later profile has its
\* Delete invoked while an earlier one is still at its List step
C8_Witness ==
    \E p \in Profiles : \E q \in Profiles :
        /\ p < q
        /\ history[p] = <<"Enumerate">>
        /\ "Delete" \in StepsOf(history[q])

(***************************************************************************)
(* Further properties of Generation::parse and Generation::parse_many      *)
(* (checked under SpecParse).                                              *)
(***************************************************************************)
\* the first three fields of the line are an id, a date and a time that parse
FirstThreeGood(input) ==
    /\ Len(Fields(input)) >= 3
    /\ parse_u32(Fields(input)[1]).kind = "Ok"
    /\ parse_from_str(Fields(input)[2] \o <<" ">> \o Fields(input)[3]).kind = "Ok"

\* C11: on a line whose id, date and time parse, Generation::parse gives
\* current = true when the fourth field is the token (current), current =
\* false when there is no fourth field, and fails when the fourth field is
\* any other token.
C11_MarkerHandling ==
    (p_call = "parse" /\ FirstThreeGood(p_input)) =>
        IF Len(Fields(p_input)) = 3
        THEN p_result.kind = "Ok" /\ ~p_result.value.current
        ELSE IF Fields(p_input)[4] = CurrentMarker
        THEN p_result.kind = "Ok" /\ p_result.value.current
        ELSE p_result.kind = "Err"

\* a line that is empty or holds whitespace only
IsBlank(line) == \A i \in 1..Len(line) : line[i] \in Whitespace

NotBlank(line) == ~IsBlank(line)

\* C12: Generation::parse_many skips blank and whitespace-only lines: its
\* result on a text is its result on the lines of the text that are not
\* blank, and it is the empty list on an empty text.
C12_BlankLinesSkipped ==
    p_call = "parse_many" =>
        /\ p_result = collect_results(SelectSeq(lines(p_input), NotBlank))
        /\ (p_input = <<>> => p_result = Ok(<<>>))

\* the index of the first line that Generation::parse does not accept
FirstFailing(ls) ==
    CHOOSE i \in 1..Len(ls) :
        parse(ls[i]).kind # "Ok" /\ \A j \in 1..(i - 1) : parse(ls[j]).kind = "Ok"

\* C13: Generation::parse_many is all-or-nothing: when every line parses it
\* returns the parsed lines in input order; when a line fails it returns an
\* error value, the one of the first failing line, and no list.
C13_AllOrNothing ==
    p_call = "parse_many" =>
        LET ls == lines(p_input)
        IN  IF \A i \in 1..Len(ls) : parse(ls[i]).kind = "Ok"
            THEN p_result = Ok([i \in 1..Len(ls) |-> parse(ls[i]).value])
            ELSE /\ p_result.kind = "Err"
                 /\ p_result = parse(ls[FirstFailing(ls)])

(***************************************************************************)
(* Properties of GenerationSet (checked under SpecFrom and SpecSet).       *)
(***************************************************************************)
\* the iterator yields strictly ascending ids: one entry per id, in id order
StrictlyAscending(set) == \A i \in 1..(Len(set) - 1) : set[i].id < set[i + 1].id

\* C14: a GenerationSet, built from whatever Vec, holds at most one entry per
\* id and iterates in strictly ascending id order, and so does every set a
\* query returns.
C14_OneEntryPerId ==
    /\ gs_call # "new" => StrictlyAscending(gs_self)
    /\ gs_call \notin {"new", "none"} => StrictlyAscending(gs_result)

\* C15: generations_to_delete(keep, cutoff) is empty whenever keep >= |S|,
\* whatever the cutoff: the count floor alone protects every entry.
C15_CountFloorCoversAll ==
    (gs_call = "generations_to_delete" /\ gs_n >= len(gs_self)) => gs_result = <<>>

\* C15 witness: keep = |S| on a set of several entries, all of them older
\* than the cutoff, so that the age floor protects the last entry only
C15_Witness ==
    /\ gs_call = "generations_to_delete"
    /\ gs_n = len(gs_self)
    /\ len(gs_self) >= 2
    /\ \A g \in Entries(gs_self) : g.date < gs_date
    /\ gs_result = <<>>

\* C16: generations_to_delete(keep, cutoff) is empty for every keep, 0
\* included, when the cutoff is not later than the timestamp of any entry.
C16_CutoffBeforeAll ==
    (/\ gs_call = "generations_to_delete"
     /\ \A g \in Entries(gs_self) : gs_date <= g.date)
        => gs_result = <<>>

\* C16 witness: keep = 0 on a set of several entries, none older than the
\* cutoff and one of them made exactly at the cutoff
C16_Witness ==
    /\ gs_call = "generations_to_delete"
    /\ gs_n = 0
    /\ len(gs_self) >= 2
    /\ \A g \in Entries(gs_self) : gs_date <= g.date
    /\ \E g \in Entries(gs_self) : gs_date = g.date
    /\ gs_result = <<>>

\* the timestamps of the set strictly increase with the id
DatesIncreaseWithId(set) == \A i \in 1..(Len(set) - 1) : set[i].date < set[i + 1].date

MinOf(S) == CHOOSE x \in S : \A y \in S : x <= y

MaxOf(S) == CHOOSE x \in S : \A y \in S : y <= x

\* the ids the claim takes the smaller of: the lowest id of
\* get_last_n_generations(keep) and the id of the last entry made before the
\* cutoff, each where there is one
FloorIds(set, keep, date) ==
    (IF get_last_n_generations(set, keep) = <<>> THEN {}
     ELSE {MinOf(IdsOf(get_last_n_generations(set, keep)))})
    \cup (IF OlderThan(set, date) = {} THEN {}
          ELSE {MaxOf({g.id : g \in OlderThan(set, date)})})

\* every deleted id is smaller than every retained id
DeletesLowestIds(set, deleted) ==
    \A d \in IdsOf(deleted) : \A r \in IdsOf(set) \ IdsOf(deleted) : d < r

\* C17 as claimed: on a set whose timestamps strictly increase with id,
\* generations_to_delete(keep, cutoff) is a lowest-id prefix of the set, and
\* the first retained id is the smaller of the lowest id of
\* get_last_n_generations(keep) and the id of the last entry made before the
\* cutoff.
C17_PrefixUpToSmallerFloor ==
    (gs_call = "generations_to_delete" /\ DatesIncreaseWithId(gs_self)) =>
        /\ Entries(gs_result) \subseteq Entries(gs_self)
        /\ DeletesLowestIds(gs_self, gs_result)
        /\ FloorIds(gs_self, gs_n, gs_date) # {} =>
              /\ IdsOf(gs_self) \ IdsOf(gs_result) # {}
              /\ MinOf(IdsOf(gs_self) \ IdsOf(gs_result)) = MinOf(FloorIds(gs_self, gs_n, gs_date))

\* C17, amended: the same, with the first retained id being the smaller of
\* the two floors only when some entry was made before the cutoff; when none
\* was, nothing is deleted.
C17_PrefixUpToSmallerFloorOrNothing ==
    (gs_call = "generations_to_delete" /\ DatesIncreaseWithId(gs_self)) =>
        /\ Entries(gs_result) \subseteq Entries(gs_self)
        /\ DeletesLowestIds(gs_self, gs_result)
        /\ IF OlderThan(gs_self, gs_date) = {}
           THEN gs_result = <<>>
           ELSE /\ IdsOf(gs_self) \ IdsOf(gs_result) # {}
                /\ MinOf(IdsOf(gs_self) \ IdsOf(gs_result)) = MinOf(FloorIds(gs_self, gs_n, gs_date))

\* C17 witness: timestamps increase with id, some but not all entries are
\* deleted, and the count floor reaches lower than the age floor
C17_Witness ==
    /\ gs_call = "generations_to_delete"
    /\ DatesIncreaseWithId(gs_self)
    /\ gs_result # <<>>
    /\ Len(gs_result) < len(gs_self)
    /\ OlderThan(gs_self, gs_date) # {}
    /\ gs_n > 0
    /\ MinOf(IdsOf(get_last_n_generations(gs_self, gs_n))) < MaxOf({g.id : g \in OlderThan(gs_self, gs_date)})

(***************************************************************************)
(* Further properties of the pipelines of main (checked under Spec).       *)
(***************************************************************************)
\* the payload Job::set_data has put into the job of profile p by the stage
\* the pipeline is at
PayloadAt(p) ==
    LET listed == GenerationSetFrom(Listed(list_child[p].stdout).value)
    IN  CASE stage[p] \in {"created", "listing", "done"} -> Unit
          [] stage[p] = "listed" -> SetData(listed)
          [] stage[p] \in {"selected", "deleting"} ->
                SetData(generations_to_delete(listed, job[p].keep_at_least, job[p].keep_since))
          [] OTHER -> job[p].data

\* C18: through every Job::set_data of a pipeline the job keeps the path,
\* keep_since and keep_at_least it was created with, and its data is the
\* value last set; so Select and Delete see the configuration of Job::new.
C18_ConfigurationKept ==
    \A p \in Profiles :
        /\ job[p].path = ProfilePaths[p]
        /\ job[p].keep_since = keep_since_of(args, now)
        /\ job[p].keep_at_least = unwrap_or(keep_at_least_of(args), 1)
        /\ job[p].data = PayloadAt(p)
        /\ delete_child[p].state # "none" => delete_child[p].path = job[p].path

\* C18 witness: set_data has replaced the payload twice (the listed set, then
\* the set to delete) and Delete has been invoked
C18_Witness ==
    \E p \in Profiles :
        /\ stage[p] = "deleting"
        /\ job[p].data.type = "GenerationSet"
        /\ job[p].data.generations # <<>>
        /\ job[p].data.generations # GenerationSetFrom(Listed(list_child[p].stdout).value)

\* C19: the minimum-keep count of every profile's job is 1 in age-only mode,
\* whatever keep_at_least holds, and the configured keep_at_least otherwise,
\* 0 included.
C19_MinimumKeep ==
    \A p \in Profiles :
        job[p].keep_at_least = (IF args.by_age_only THEN 1 ELSE args.keep_at_least)

\* C19 witness: in age-only mode, with keep_at_least at its default, a
\* pipeline has invoked Delete for all but the newest of several generations
C19_Witness ==
    /\ args.by_age_only
    /\ args.keep_at_least = DefaultKeepAtLeast
    /\ \E p \in Profiles :
          /\ delete_child[p].state # "none"
          /\ Len(delete_child[p].ids) >= 1
          /\ Len(delete_child[p].ids) + 1 = Len(Listed(list_child[p].stdout).value)

\* nix-env --delete-generations of profile p ended with a non-zero status and
\* the pipeline has returned the error
DeleteFailed(p) ==
    /\ delete_child[p].state = "exited"
    /\ ~delete_child[p].success
    /\ stage[p] = "failed"

\* C20: when the Delete of a profile fails with a non-zero exit, the error of
\* that profile's pipeline carries the profile path, the ids whose deletion
\* was attempted, and the stderr text of nix-env.
C20_DeleteErrorContent ==
    \A p \in Profiles :
        DeleteFailed(p) =>
            /\ outcome[p].kind = "Err"
            /\ outcome[p].error.stderr = delete_child[p].stderr
            /\ "path" \in DOMAIN outcome[p].error
            /\ outcome[p].error.path = delete_child[p].path
            /\ "ids" \in DOMAIN outcome[p].error
            /\ outcome[p].error.ids = delete_child[p].ids

(***************************************************************************)
(* Properties of the runs of main (checked under Spec).                    *)
(***************************************************************************)
\* the step the payload of profile p takes when its stage goes from s to t
PayloadStep(p, s, t) ==
    CASE s = "listing" /\ t = "listed" ->
            /\ job[p].data = Unit
            /\ job'[p].data = SetData(GenerationSetFrom(Listed(list_child[p].stdout).value))
      [] s = "listed" /\ t = "selected" ->
            job'[p].data = SetData(generations_to_delete(job[p].data.generations,
                                                         job[p].keep_at_least, job[p].keep_since))
      [] s = "deleting" /\ t = "done" ->
            /\ delete_child[p].state = "exited"
            /\ delete_child[p].success
            /\ job'[p].data = Unit
      [] t \in {"failed", "panicked", "dropped"} -> job'[p].data = Dropped
      [] OTHER -> job'[p].data = job[p].data

\* C21: the payload of a profile starts empty, becomes the full listed set,
\* then the set to delete, then empty again, the last only after nix-env
\* --delete-generations ended with success; the job of a pipeline that failed
\* or was dropped holds no payload; and a payload changes only in a step of
\* its own pipeline, which changes no other profile's payload.
C21_PayloadSequence ==
    [][\A p \in Profiles :
          /\ PayloadStep(p, stage[p], stage'[p])
          /\ (job'[p].data # job[p].data /\ job'[p].data # Dropped) =>
                /\ cursor = p
                /\ \A q \in Profiles \ {p} : job'[q] = job[q]]_vars

\* C21 witness: a pipeline is through: its payload is empty again after it
\* was a set to delete that was not empty
C21_Witness ==
    \E p \in Profiles :
        /\ stage[p] = "done"
        /\ job[p].data = Unit
        /\ delete_child[p].ids # <<>>
        /\ \E q \in Profiles \ {p} : job[q].data.type = "GenerationSet"

\* how far a pipeline has come, and how far a child process
StageRank(s) ==
    CASE s = "created" -> 0
      [] s = "listing" -> 1
      [] s = "listed" -> 2
      [] s = "selected" -> 3
      [] s = "deleting" -> 4
      [] OTHER -> 5

ChildRank(c) == IF c.state = "none" THEN 0 ELSE IF c.state = "running" THEN 1 ELSE 2

Ended(s) == s \in {"done", "failed", "panicked", "dropped"}

Count(h, step) == Cardinality({i \in 1..Len(h) : h[i] = step})

\* C22: the stages of a profile are linear and nothing is retried: a stage
\* never moves backwards, a pipeline that has ended (done, failed, dropped)
\* stays as it ended, every step it takes moves it forward, and nix-env
\* --list-generations and nix-env --delete-generations are each spawned at
\* most once per profile.
C22_LinearNoRetry ==
    [][\A p \in Profiles :
          /\ StageRank(stage'[p]) >= StageRank(stage[p])
          /\ Ended(stage[p]) => stage'[p] = stage[p]
          /\ history'[p] # history[p] => StageRank(stage'[p]) > StageRank(stage[p])
          /\ ChildRank(list_child'[p]) >= ChildRank(list_child[p])
          /\ ChildRank(delete_child'[p]) >= ChildRank(delete_child[p])
          /\ Count(history'[p], "Enumerate") <= 1
          /\ Count(history'[p], "Delete") <= 1]_vars

\* C22 witness: a pipeline has failed at its Delete stage, after both
\* collaborators were invoked, and try_join_all has returned
C22_Witness ==
    \E p \in Profiles :
        /\ stage[p] = "failed"
        /\ Count(history[p], "Enumerate") = 1
        /\ Count(history[p], "Delete") = 1
        /\ joined.kind = "Err"

(***************************************************************************)
(* Further properties of the retention queries (checked under SpecSet).    *)
(***************************************************************************)
\* the set with the same ids and timestamps whose current entry is the one
\* with id cur (none when no entry has that id)
WithCurrent(set, cur) ==
    [i \in 1..Len(set) |-> Generation(set[i].id, set[i].date, set[i].id = cur)]

\* C23: generations_to_delete does not look at the current flag: every set
\* with the same ids and timestamps and another current flag gives the same
\* deleted ids, and an entry marked current is deleted when neither
\* get_last_n_generations(keep) nor get_active_on_or_after(cutoff) holds it.
C23_CurrentFlagIgnored ==
    gs_call = "generations_to_delete" =>
        /\ \A cur \in IdsOf(gs_self) \cup {0} :
              IdsOf(generations_to_delete(WithCurrent(gs_self, cur), gs_n, gs_date))
                  = IdsOf(gs_result)
        /\ \A g \in Entries(gs_self) :
              (/\ g.current
               /\ g \notin Entries(get_last_n_generations(gs_self, gs_n))
               /\ g \notin Entries(get_active_on_or_after(gs_self, gs_date)))
                  => g \in Entries(gs_result)

\* C23 witness: the generation marked current is selected for deletion
C23_Witness ==
    /\ gs_call = "generations_to_delete"
    /\ \E g \in Entries(gs_result) : g.current

\* C24: nix-store --gc is spawned at most once in a run, only when it was
\* asked for and only after try_join_all returned Ok, that is with every
\* pipeline done; from then on no pipeline takes a step and no Delete is
\* invoked or changed, so the collection has no part in what is deleted.
C24_GcOnceAfterPipelines ==
    [][/\ gc'.state # "none" =>
            /\ args.gc
            /\ joined'.kind = "Ok"
            /\ \A p \in Profiles : stage'[p] = "done" /\ delete_child'[p].state = "exited"
       /\ ChildRank(gc') >= ChildRank(gc)
       /\ gc.state # "none" =>
            /\ delete_child' = delete_child
            /\ job' = job
            /\ stage' = stage
            /\ history' = history]_vars

\* C24 witness: the collection ran after pipelines that deleted generations,
\* it failed, and main returned Ok all the same
C24_Witness ==
    /\ gc.state = "exited"
    /\ gc.how = "failure"
    /\ main_result.kind = "Ok"
    /\ \E p \in Profiles : delete_child[p].ids # <<>>

\* C25: on a set that is not empty, generations_to_delete never selects the
\* entry with the highest id, whatever keep (0 included), the cutoff and the
\* timestamps are; so it never selects the whole set.
C25_HighestIdKept ==
    (gs_call = "generations_to_delete" /\ gs_self # <<>>) =>
        /\ MaxOf(IdsOf(gs_self)) \notin IdsOf(gs_result)
        /\ Last(gs_self) \notin Entries(gs_result)
        /\ Len(gs_result) < len(gs_self)

\* C25 witness: keep = 0, every entry older than the cutoff, and the entry
\* with the highest id is not the one made last: all but it are deleted
C25_Witness ==
    /\ gs_call = "generations_to_delete"
    /\ gs_n = 0
    /\ len(gs_self) >= 2
    /\ \A g \in Entries(gs_self) : g.date < gs_date
    /\ \E g \in Entries(gs_self) : g.date > Last(gs_self).date
    /\ Len(gs_result) = len(gs_self) - 1

\* nix-env --delete-generations of profile p could not be spawned
DeleteSpawnFailed(p) ==
    /\ stage[p] = "failed"
    /\ "Select" \in StepsOf(history[p])
    /\ delete_child[p].state = "none"

\* C26: once the List stage of a profile has succeeded and its pipeline has
\* been polled through, its Delete has been invoked (or the spawn of it has
\* failed the pipeline), with an empty id list when nothing was selected; and
\* when that nix-env ends with a failure the pipeline, the join and main fail,
\* also when the id list was empty.
C26_DeleteAlwaysInvoked ==
    \A p \in Profiles :
        /\ ("List" \in StepsOf(history[p]) /\ ~Polling(p)) =>
              \/ DeleteSpawnFailed(p)
              \/ /\ "Delete" \in StepsOf(history[p])
                 /\ delete_child[p].state # "none"
        /\ DeleteFailed(p) =>
              /\ joined.kind = "Err"
              /\ joined.from = p
              /\ main_result.kind \in {"Pending", "Err"}
        /\ DeleteSpawnFailed(p) => joined.kind = "Err" /\ joined.from = p

\* C26 witness: nothing was selected, Delete was invoked with no ids, it
\* failed, and main returned its error
C26_Witness ==
    \E p \in Profiles :
        /\ "List" \in StepsOf(history[p])
        /\ delete_child[p].state = "exited"
        /\ delete_child[p].ids = <<>>
        /\ DeleteFailed(p)
        /\ main_result = outcome[p]
        /\ main_result.kind = "Err"

\* C27: loosening a retention parameter never selects more: with keep1 <=
\* keep2 and cutoff1 <= cutoff2, generations_to_delete(keep2, cutoff1) is a
\* subset of generations_to_delete(keep1, cutoff2).  The call made is the one
\* with keep1 and cutoff2; keep2 and cutoff1 range over the bounds.
C27_Monotone ==
    gs_call = "generations_to_delete" =>
        \A keep2 \in Counts : \A cutoff1 \in Cutoffs :
            (gs_n <= keep2 /\ cutoff1 <= gs_date) =>
                Entries(generations_to_delete(gs_self, keep2, cutoff1)) \subseteq Entries(gs_result)

\* C27 witness: a larger keep and an earlier cutoff select fewer
\* generations, each of them some
C27_Witness ==
    /\ gs_call = "generations_to_delete"
    /\ \E keep2 \in Counts : \E cutoff1 \in Cutoffs :
          /\ gs_n < keep2
          /\ cutoff1 < gs_date
          /\ generations_to_delete(gs_self, keep2, gs_date) # <<>>
          /\ generations_to_delete(gs_self, keep2, gs_date) # gs_result
          /\ generations_to_delete(gs_self, gs_n, cutoff1) # <<>>
          /\ generations_to_delete(gs_self, gs_n, cutoff1) # gs_result

====
